---- MODULE Spec2Model ----
(***************************************************************************)
(* A model of networking_sfc/extensions/sfc.py: the SFC API extension of   *)
(* Neutron.  The module holds                                              *)
(*   - three module-level default dictionaries and the three normalizers   *)
(*     that hand them out (normalize_chain_parameters and friends),        *)
(*   - the validator validate_list_of_allowed_values,                      *)
(*   - the converter normalize_port_pair_groups,                           *)
(*   - RESOURCE_ATTRIBUTE_MAP, the schema the API layer interprets on      *)
(*     every POST and PUT of a port pair, port pair group or port chain,   *)
(*   - the abstract plugin interface SfcPluginBase.                        *)
(*                                                                         *)
(* Python values are tagged records, so that values of different Python    *)
(* types can be compared.  Dictionaries are mutable objects: they live in  *)
(* the heap and are passed by reference (Ref), which is what lets a        *)
(* normalizer write into its argument and return a shared default.         *)
(***************************************************************************)
EXTENDS Integers, Sequences, FiniteSets, TLC

VARIABLES heap, call, last, applied, res, nextId, implemented, instance

vars == <<heap, call, last, applied, res, nextId, implemented, instance>>

(***************************************************************************)
(* Python values.                                                          *)
(***************************************************************************)
None == [t |-> "none"]
PyBool(b) == [t |-> "bool", b |-> b]
PyInt(i) == [t |-> "int", i |-> i]
PyStr(s) == [t |-> "str", s |-> s]
PyList(l) == [t |-> "list", l |-> l]
PyDict(d) == [t |-> "dict", d |-> d]
Ref(o) == [t |-> "ref", o |-> o]

\* The empty dictionary {} and a dictionary literal of one or two items.
EmptyDict == <<>>
Dict1(k, v) == [x \in {k} |-> v]
Dict2(k1, v1, k2, v2) == [x \in {k1, k2} |-> IF x = k1 THEN v1 ELSE v2]

\* d[key] = value on a dictionary value.
WithItem(d, key, value) ==
    [x \in DOMAIN d \cup {key} |-> IF x = key THEN value ELSE d[x]]

\* The elements of a sequence, as a set: Python's set(data).
Range(s) == {s[i] : i \in DOMAIN s}

\* bool(v) of a value v in heap h: what `if not v` tests.
Truthy(h, v) ==
    CASE v.t = "none" -> FALSE
      [] v.t = "bool" -> v.b
      [] v.t = "int" -> v.i # 0
      [] v.t = "str" -> v.s # ""
      [] v.t = "list" -> v.l # <<>>
      [] v.t = "dict" -> DOMAIN v.d # {}
      [] v.t = "ref" -> DOMAIN h[v.o] # {}

\* The value a reference stands for: a dictionary object's contents.
Deref(h, v) == IF v.t = "ref" THEN PyDict(h[v.o]) ELSE v

(***************************************************************************)
(* Module-level constants.                                                 *)
(***************************************************************************)
DEFAULT_CHAIN_CORRELATION == PyStr("mpls")
DEFAULT_CHAIN_SYMMETRY == PyBool(FALSE)
DEFAULT_CHAIN_PARAMETERS ==
    Dict2("correlation", DEFAULT_CHAIN_CORRELATION,
          "symmetric", DEFAULT_CHAIN_SYMMETRY)
DEFAULT_SF_PARAMETERS == Dict2("correlation", None, "weight", PyInt(1))
DEFAULT_PPG_PARAMETERS == Dict1("lb_fields", PyList(<<>>))
SUPPORTED_LB_FIELDS ==
    <<PyStr("eth_src"), PyStr("eth_dst"), PyStr("ip_src"), PyStr("ip_dst"),
      PyStr("tcp_src"), PyStr("tcp_dst"), PyStr("udp_src"), PyStr("udp_dst")>>
\* A range one short of the sixteen-bit identifiers.
MAX_CHAIN_ID_short == 65535 - 1

MAX_CHAIN_ID == 65535

\* The dictionary objects of the model: the three module-level defaults
\* and "arg", the dictionary most recently built by a caller.
DefaultObjects ==
    {"DEFAULT_CHAIN_PARAMETERS", "DEFAULT_SF_PARAMETERS",
     "DEFAULT_PPG_PARAMETERS"}
Objects == DefaultObjects \cup {"arg"}

\* The heap when the module has just been imported.
InitHeap ==
    [o \in Objects |->
        CASE o = "DEFAULT_CHAIN_PARAMETERS" -> DEFAULT_CHAIN_PARAMETERS
          [] o = "DEFAULT_SF_PARAMETERS" -> DEFAULT_SF_PARAMETERS
          [] o = "DEFAULT_PPG_PARAMETERS" -> DEFAULT_PPG_PARAMETERS
          [] OTHER -> EmptyDict]

\* parameters[key] = value on the dictionary object o.
SetItem(h, o, key, value) ==
    [h EXCEPT ![o] = WithItem(h[o], key, value)]

\* The outcome of a call: the heap after it, the exception raised ("" for
\* none) and the value returned.
Returned(h, v) == [heap |-> h, raised |-> "", ret |-> v]
Raised(h, exc) == [heap |-> h, raised |-> exc, ret |-> None]

(***************************************************************************)
(* The normalizers (convert_to of the three *_parameters attributes).      *)
(* Each takes the heap and the argument (a reference to a dictionary       *)
(* object, or an immediate value) and yields the heap after the call and   *)
(* the reference or value returned.                                        *)
(***************************************************************************)

\* `key in v`: membership in a dictionary or a list, "TypeError" for a
\* value that is not iterable.  For a str Python tests for a substring;
\* the strings of the model are compared whole.
Contains(h, v, key) ==
    CASE v.t = "ref" -> IF key \in DOMAIN h[v.o] THEN "yes" ELSE "no"
      [] v.t = "list" -> IF PyStr(key) \in Range(v.l) THEN "yes" ELSE "no"
      [] v.t = "str" -> IF v.s = key THEN "yes" ELSE "no"
      [] OTHER -> "TypeError"

\* `if key not in parameters: parameters[key] = value`, one of the two
\* steps of normalize_chain_parameters.  Item assignment works on a
\* dictionary only.
SetDefault(out, parameters, key, value) ==
    IF out.raised # "" THEN out
    ELSE LET c == Contains(out.heap, parameters, key)
         IN  CASE c = "yes" -> out
               [] c = "TypeError" -> Raised(out.heap, "TypeError")
               [] parameters.t = "ref" ->
                      Returned(SetItem(out.heap, parameters.o, key, value),
                               parameters)
               [] OTHER -> Raised(out.heap, "TypeError")

\* A slip of normalize_chain_parameters: 'symmetric' is overwritten with
\* the default even when the caller supplied it.
normalize_chain_parameters_overwrite(h, parameters) ==
    IF ~Truthy(h, parameters)
    THEN Returned(h, Ref("DEFAULT_CHAIN_PARAMETERS"))
    ELSE IF parameters.t # "ref" THEN Raised(h, "TypeError")
    ELSE Returned(SetItem(SetItem(h, parameters.o, "symmetric",
                                  DEFAULT_CHAIN_SYMMETRY),
                          parameters.o, "correlation",
                          DEFAULT_CHAIN_CORRELATION),
                  parameters)

\* A slip of normalize_chain_parameters: an empty argument is returned as
\* it is.
normalize_chain_parameters_no_default(h, parameters) ==
    IF ~Truthy(h, parameters)
    THEN Returned(h, parameters)
    ELSE SetDefault(
             SetDefault(Returned(h, parameters), parameters,
                        "correlation", DEFAULT_CHAIN_CORRELATION),
             parameters, "symmetric", DEFAULT_CHAIN_SYMMETRY)

normalize_chain_parameters(h, parameters) ==
    IF ~Truthy(h, parameters)
    THEN Returned(h, Ref("DEFAULT_CHAIN_PARAMETERS"))
    ELSE SetDefault(
             SetDefault(Returned(h, parameters), parameters,
                        "correlation", DEFAULT_CHAIN_CORRELATION),
             parameters, "symmetric", DEFAULT_CHAIN_SYMMETRY)

\* A slip of normalize_sf_parameters: the default whatever the argument.
normalize_sf_parameters_always_default(h, parameters) ==
    Returned(h, Ref("DEFAULT_SF_PARAMETERS"))

normalize_sf_parameters(h, parameters) ==
    IF Truthy(h, parameters)
    THEN Returned(h, parameters)
    ELSE Returned(h, Ref("DEFAULT_SF_PARAMETERS"))

normalize_ppg_parameters(h, parameters) ==
    IF Truthy(h, parameters)
    THEN Returned(h, parameters)
    ELSE Returned(h, Ref("DEFAULT_PPG_PARAMETERS"))

\* A caller passes a dictionary it has just built (a new object, "arg"),
\* an immediate value, or a reference it already holds.
PassArg(h, arg) ==
    IF arg.t = "dict"
    THEN [heap |-> [h EXCEPT !["arg"] = arg.d], p |-> Ref("arg")]
    ELSE [heap |-> h, p |-> arg]

(***************************************************************************)
(* The converters the attribute map names (convert_to).  Those of          *)
(* neutron_lib.api.converters are modelled by what they do to the JSON     *)
(* values of a request body.                                               *)
(***************************************************************************)
\* Strings that int() parses are the decimal numerals of the integers
\* within ChainIdWindow of 0 and of MAX_CHAIN_ID (and of small weights).
ChainIdWindow == 4

Numerals ==
    (0 - ChainIdWindow .. ChainIdWindow)
        \cup (MAX_CHAIN_ID - ChainIdWindow .. MAX_CHAIN_ID + ChainIdWindow)

\* int(s) for a str: the integer whose decimal numeral s is, if any.
IsNumeral(s) == \E n \in Numerals : ToString(n) = s
ParseInt(s) == CHOOSE n \in Numerals : ToString(n) = s

\* lib_converters.convert_to_int: int(data), InvalidInput when int() raises
\* ValueError or TypeError.
convert_to_int(h, data) ==
    CASE data.t = "int" -> Returned(h, data)
      [] data.t = "bool" -> Returned(h, PyInt(IF data.b THEN 1 ELSE 0))
      [] data.t = "str" /\ IsNumeral(data.s) ->
             Returned(h, PyInt(ParseInt(data.s)))
      [] OTHER -> Raised(h, "InvalidInput")

\* lib_converters.convert_to_boolean: booleans, 0 and 1, and the strings
\* that spell true or false.
convert_to_boolean(h, data) ==
    CASE data.t = "bool" -> Returned(h, data)
      [] data.t = "int" /\ data.i \in {0, 1} -> Returned(h, PyBool(data.i = 1))
      [] data.t = "str" /\ data.s \in {"true", "True", "1"} ->
             Returned(h, PyBool(TRUE))
      [] data.t = "str" /\ data.s \in {"false", "False", "0"} ->
             Returned(h, PyBool(FALSE))
      [] OTHER -> Raised(h, "InvalidInput")

\* A set of strings as a list, in some order: list(d) of a dictionary.
RECURSIVE KeyList(_)
KeyList(K) ==
    IF K = {} THEN <<>>
    ELSE LET k == CHOOSE x \in K : TRUE
         IN  <<PyStr(k)>> \o KeyList(K \ {k})

\* lib_converters.convert_to_list: None becomes [], an iterable that is not
\* a string becomes the list of its items, anything else a one-item list.
convert_to_list(h, data) ==
    CASE data.t = "none" -> Returned(h, PyList(<<>>))
      [] data.t = "list" -> Returned(h, data)
      [] data.t = "dict" -> Returned(h, PyList(KeyList(DOMAIN data.d)))
      [] data.t = "ref" -> Returned(h, PyList(KeyList(DOMAIN h[data.o])))
      [] OTHER -> Returned(h, PyList(<<data>>))

\* lib_converters.convert_none_to_empty_list.
convert_none_to_empty_list(h, data) ==
    IF data.t = "none" THEN Returned(h, PyList(<<>>)) ELSE Returned(h, data)

\* A slip of normalize_port_pair_groups: the emptiness test is left out.
normalize_port_pair_groups_unchecked(h, port_pair_groups) ==
    convert_to_list(h, port_pair_groups)

normalize_port_pair_groups(h, port_pair_groups) ==
    LET l == convert_to_list(h, port_pair_groups)
    IN  IF ~Truthy(h, l.ret)
        THEN Raised(h, "PortPairGroupNotSpecified")
        ELSE l

(***************************************************************************)
(* The validators the attribute map names (validate).  A validator         *)
(* returns None ("" here) for valid data and a message otherwise; it may   *)
(* also raise.                                                             *)
(***************************************************************************)
Valid == [raised |-> "", msg |-> ""]
Invalid(m) == [raised |-> "", msg |-> m]
Raises(exc) == [raised |-> exc, msg |-> ""]

\* Values Python can put in a set: everything but lists and dictionaries.
Hashable(v) == v.t \notin {"list", "dict", "ref"}

validate_list_of_allowed_values(data, allowed_values) ==
    IF data.t # "list"
    THEN Invalid("is not a list")
    ELSE IF \E x \in Range(data.l) : ~Hashable(x)
    THEN Raises("TypeError")                              \* set(data)
    ELSE LET illegal_values == Range(data.l) \ Range(allowed_values)
         IN  IF illegal_values = {} THEN Valid
             ELSE IF \E x \in illegal_values : x.t # "str"
             THEN Raises("TypeError")                     \* ', '.join(...)
             ELSE Invalid("Illegal values in a list")

\* The strings uuidutils.is_uuid_like accepts.
UuidLike == {"uuid-1", "uuid-2", "uuid-3", "uuid-4", "uuid-5"}

\* type:uuid
validate_uuid(data) ==
    IF data.t = "str" /\ data.s \in UuidLike THEN Valid
    ELSE Invalid("is not a valid UUID")

\* type:uuid_list
validate_uuid_list(data) ==
    IF data.t # "list" THEN Invalid("is not a list")
    ELSE IF \E x \in Range(data.l) : validate_uuid(x) # Valid
    THEN Invalid("is not a valid UUID")
    ELSE IF Cardinality(Range(data.l)) # Len(data.l)
    THEN Invalid("Duplicate items in the list")
    ELSE Valid

\* type:string (the strings of the model are shorter than the field sizes)
validate_string(data) ==
    IF data.t = "str" THEN Valid ELSE Invalid("is not a valid string")

\* type:range, with valid_values = (min, max)
validate_range(data, valid_values) ==
    LET n == convert_to_int(InitHeap, data)
    IN  IF n.raised # "" THEN Invalid("is not an integer")
        ELSE IF n.ret.i < valid_values[1] THEN Invalid("is too small")
        ELSE IF n.ret.i > valid_values[2] THEN Invalid("is too large")
        ELSE Valid

\* type:values
validate_values(data, valid_values) ==
    IF data \in Range(valid_values) THEN Valid
    ELSE Invalid("is not in valid_values")

\* type:non_negative
validate_non_negative(data) ==
    LET n == convert_to_int(InitHeap, data)
    IN  IF n.raised # "" THEN Invalid("is not an integer")
        ELSE IF n.ret.i < 0 THEN Invalid("should be non-negative")
        ELSE Valid

(***************************************************************************)
(* RESOURCE_ATTRIBUTE_MAP.  An attribute's entry keeps the keys the API    *)
(* layer reads: allow_post, allow_put, default (has_default tells an       *)
(* absent 'default' from 'default': None), convert_to and validate (the    *)
(* rule and its parameter).  is_visible and primary_key play no part in    *)
(* request processing.                                                     *)
(***************************************************************************)
Attribute(post, put, hasdef, def, conv, rule, param) ==
    [allow_post |-> post, allow_put |-> put, has_default |-> hasdef,
     default |-> def, convert_to |-> conv, validate |-> rule, param |-> param]

\* One key of a 'type:dict' specification.
KeySpec(conv, rule, param) ==
    [convert_to |-> conv, validate |-> rule, param |-> param]

sf_parameters_keys ==
    [order |-> <<"correlation", "weight">>,
     keys |-> [correlation |-> KeySpec("", "type:values", <<None>>),
               weight |-> KeySpec("convert_to_int", "type:non_negative",
                                  None)]]

chain_parameters_keys ==
    [order |-> <<"correlation", "symmetric">>,
     keys |-> [correlation |-> KeySpec("", "type:values", <<PyStr("mpls")>>),
               symmetric |-> KeySpec("convert_to_boolean", "", None)]]

ppg_parameters_keys ==
    [order |-> <<"lb_fields">>,
     keys |-> [lb_fields |-> KeySpec("", "type:list_of_allowed_values",
                                     SUPPORTED_LB_FIELDS)]]

port_pairs_attributes ==
    [id |-> Attribute(FALSE, FALSE, FALSE, None, "", "type:uuid", None),
     name |-> Attribute(TRUE, TRUE, TRUE, PyStr(""), "", "type:string", None),
     description |->
         Attribute(TRUE, TRUE, TRUE, PyStr(""), "", "type:string", None),
     tenant_id |->
         Attribute(TRUE, FALSE, FALSE, None, "", "type:string", None),
     ingress |-> Attribute(TRUE, FALSE, FALSE, None, "", "type:uuid", None),
     egress |-> Attribute(TRUE, FALSE, FALSE, None, "", "type:uuid", None),
     service_function_parameters |->
         Attribute(TRUE, FALSE, TRUE, None, "normalize_sf_parameters",
                   "type:dict", sf_parameters_keys)]

\* A variant of the chain_id entry that lets a PUT carry chain_id.
port_chains_chain_id_updatable ==
    Attribute(TRUE, TRUE, TRUE, PyInt(0), "convert_to_int", "type:range",
              <<0, 65535>>)

port_chains_chain_id ==
    Attribute(TRUE, FALSE, TRUE, PyInt(0), "convert_to_int", "type:range",
              <<0, MAX_CHAIN_ID>>)

\* A variant of the port_pair_groups entry with 'default': None, which
\* sends an absent port_pair_groups to the converter.
port_chains_port_pair_groups_defaulted ==
    Attribute(TRUE, TRUE, TRUE, None, "normalize_port_pair_groups",
              "type:uuid_list", None)

port_chains_port_pair_groups ==
    Attribute(TRUE, TRUE, FALSE, None, "normalize_port_pair_groups",
              "type:uuid_list", None)

port_chains_attributes ==
    [id |-> Attribute(FALSE, FALSE, FALSE, None, "", "type:uuid", None),
     chain_id |-> port_chains_chain_id,
     name |-> Attribute(TRUE, TRUE, TRUE, PyStr(""), "", "type:string", None),
     description |->
         Attribute(TRUE, TRUE, TRUE, PyStr(""), "", "type:string", None),
     tenant_id |->
         Attribute(TRUE, FALSE, FALSE, None, "", "type:string", None),
     port_pair_groups |-> port_chains_port_pair_groups,
     flow_classifiers |->
         Attribute(TRUE, TRUE, TRUE, None, "convert_to_list",
                   "type:uuid_list", None),
     chain_parameters |->
         Attribute(TRUE, FALSE, TRUE, None, "normalize_chain_parameters",
                   "type:dict", chain_parameters_keys)]

port_pair_groups_attributes ==
    [id |-> Attribute(FALSE, FALSE, FALSE, None, "", "type:uuid", None),
     group_id |-> Attribute(FALSE, FALSE, FALSE, None, "", "", None),
     name |-> Attribute(TRUE, TRUE, TRUE, PyStr(""), "", "type:string", None),
     description |->
         Attribute(TRUE, TRUE, TRUE, PyStr(""), "", "type:string", None),
     tenant_id |->
         Attribute(TRUE, FALSE, FALSE, None, "", "type:string", None),
     port_pairs |->
         Attribute(TRUE, TRUE, TRUE, None, "convert_none_to_empty_list",
                   "type:uuid_list", None),
     port_pair_group_parameters |->
         Attribute(TRUE, FALSE, TRUE, None, "normalize_ppg_parameters",
                   "type:dict", ppg_parameters_keys)]

RESOURCE_ATTRIBUTE_MAP ==
    [port_pairs |-> port_pairs_attributes,
     port_chains |-> port_chains_attributes,
     port_pair_groups |-> port_pair_groups_attributes]

Kinds == DOMAIN RESOURCE_ATTRIBUTE_MAP
Attributes(kind) == DOMAIN RESOURCE_ATTRIBUTE_MAP[kind]

(***************************************************************************)
(* How the API layer applies one attribute's convert_to and validate to a  *)
(* value of the request.                                                   *)
(***************************************************************************)
\* attr_vals['convert_to'](value)
Convert(conv, h, v) ==
    CASE conv = "" -> Returned(h, v)
      [] conv = "convert_to_int" -> convert_to_int(h, v)
      [] conv = "convert_to_boolean" -> convert_to_boolean(h, v)
      [] conv = "convert_to_list" -> convert_to_list(h, v)
      [] conv = "convert_none_to_empty_list" ->
             convert_none_to_empty_list(h, v)
      [] conv = "normalize_port_pair_groups" ->
             normalize_port_pair_groups(h, v)
      [] conv = "normalize_chain_parameters" ->
             normalize_chain_parameters(h, v)
      [] conv = "normalize_sf_parameters" -> normalize_sf_parameters(h, v)
      [] conv = "normalize_ppg_parameters" -> normalize_ppg_parameters(h, v)

\* validators[rule](value, param) for the rules that take a plain value.
Validate(rule, param, v) ==
    CASE rule = "" -> Valid
      [] rule = "type:uuid" -> validate_uuid(v)
      [] rule = "type:uuid_list" -> validate_uuid_list(v)
      [] rule = "type:string" -> validate_string(v)
      [] rule = "type:range" -> validate_range(v, param)
      [] rule = "type:values" -> validate_values(v, param)
      [] rule = "type:non_negative" -> validate_non_negative(v)
      [] rule = "type:list_of_allowed_values" ->
             validate_list_of_allowed_values(v, param)

\* The result of validating a dictionary: validation converts the values
\* of the dictionary in place, so the heap is part of it.
DictResult(h, r) == [heap |-> h, raised |-> r.raised, msg |-> r.msg]

\* The items of a 'type:dict' specification from the i-th on, applied to
\* dictionary object o: the item's convert_to is stored back into the
\* dictionary, then its validator runs; the first failure ends the loop.
\* The keys are visited in the order the specification is written in.
RECURSIVE ValidateDictItems(_, _, _, _)
RECURSIVE DictItemValidated(_, _, _, _, _)
RECURSIVE DictItemConverted(_, _, _, _, _)

\* After the item's validator returned r.
DictItemValidated(h, o, specs, i, r) ==
    IF r # Valid THEN DictResult(h, r)
    ELSE ValidateDictItems(h, o, specs, i + 1)

\* After the item's convert_to returned (or raised) c: data[key] = c.
DictItemConverted(h, o, specs, i, c) ==
    IF c.raised # "" THEN DictResult(h, Raises(c.raised))
    ELSE IF specs.keys[specs.order[i]].convert_to = ""
    THEN DictItemValidated(h, o, specs, i,
             Validate(specs.keys[specs.order[i]].validate,
                      specs.keys[specs.order[i]].param, c.ret))
    ELSE DictItemValidated(SetItem(h, o, specs.order[i], c.ret), o, specs, i,
             Validate(specs.keys[specs.order[i]].validate,
                      specs.keys[specs.order[i]].param, c.ret))

ValidateDictItems(h, o, specs, i) ==
    IF i > Len(specs.order) THEN DictResult(h, Valid)
    ELSE IF specs.order[i] \notin DOMAIN h[o]
    THEN ValidateDictItems(h, o, specs, i + 1)
    ELSE DictItemConverted(h, o, specs, i,
             Convert(specs.keys[specs.order[i]].convert_to, h,
                     h[o][specs.order[i]]))

\* type:dict
validate_dict(h, data, specs) ==
    IF data.t # "ref"
    THEN DictResult(h, Invalid("is not a dictionary"))
    ELSE IF DOMAIN h[data.o] \ DOMAIN specs.keys # {}
    THEN DictResult(h, Invalid("Unexpected keys supplied"))
    ELSE ValidateDictItems(h, data.o, specs, 1)

\* One attribute of a request: convert_to, then validate.  `exc` is the
\* exception that ends the request ("" for none): the converter's or the
\* validator's own, or HTTPBadRequest for a validator's message; `stage`
\* tells where it was raised; `converted` is what convert_to returned and
\* `value` what is left in the request after validation.
AttrResult(h, exc, msg, stage, converted, value) ==
    [heap |-> h, exc |-> exc, msg |-> msg, stage |-> stage,
     converted |-> converted, value |-> value]

\* After validation returned r for the converted value c.
AttributeValidated(c, r) ==
    IF r.raised # ""
    THEN AttrResult(r.heap, r.raised, "", "validate", Deref(c.heap, c.ret),
                    None)
    ELSE IF r.msg # ""
    THEN AttrResult(r.heap, "HTTPBadRequest", r.msg, "validate",
                    Deref(c.heap, c.ret), None)
    ELSE AttrResult(r.heap, "", "", "done", Deref(c.heap, c.ret),
                    Deref(r.heap, c.ret))

\* After convert_to returned (or raised) c.
AttributeConverted(spec, c) ==
    IF c.raised # ""
    THEN AttrResult(c.heap, c.raised, "", "convert", None, None)
    ELSE IF spec.validate = "type:dict"
    THEN AttributeValidated(c, validate_dict(c.heap, c.ret, spec.param))
    ELSE AttributeValidated(c,
             DictResult(c.heap, Validate(spec.validate, spec.param, c.ret)))

\* A dictionary of the body is an object of its own.
AttributePassed(spec, a) ==
    AttributeConverted(spec, Convert(spec.convert_to, a.heap, a.p))

ApplyAttribute(h, spec, v) ==
    IF spec.validate = "type:dict"
    THEN AttributePassed(spec, PassArg(h, v))
    ELSE AttributePassed(spec, [heap |-> h, p |-> v])

\* The dictionary a request carried is dropped when the request ends.
Release(h) == [h EXCEPT !["arg"] = EmptyDict]

(***************************************************************************)
(* Request bodies.                                                         *)
(***************************************************************************)
\* How many attributes a body carries besides the required ones.
MaxExtraKeys == 1

Uuid(n) == PyStr("uuid-" \o ToString(n))

\* The values a request may give an attribute: valid ones, and some the
\* schema rejects.
Inputs(kind, attr) ==
    CASE attr = "id" -> {Uuid(5)}
      [] attr = "group_id" -> {PyInt(1)}
      [] attr = "name" -> {PyStr("a")}
      [] attr = "description" -> {PyStr("d")}
      [] attr = "tenant_id" -> {PyStr("t2")}
      [] attr = "ingress" -> {Uuid(1), PyStr("x")}
      [] attr = "egress" -> {Uuid(2)}
      [] attr = "chain_id" -> {PyInt(7), PyInt(MAX_CHAIN_ID + 1)}
      [] attr = "port_pair_groups" ->
             {None, PyList(<<>>), PyList(<<Uuid(1)>>),
              PyList(<<Uuid(1), Uuid(2)>>)}
      [] attr = "flow_classifiers" -> {PyList(<<Uuid(3)>>)}
      [] attr = "port_pairs" -> {None, PyList(<<Uuid(4)>>)}
      [] attr = "service_function_parameters" ->
             {None, PyDict(EmptyDict), PyDict(Dict1("weight", PyStr("2"))),
              PyDict(Dict1("correlation", PyStr("mpls")))}
      [] attr = "chain_parameters" ->
             {None, PyDict(EmptyDict),
              PyDict(Dict1("symmetric", PyStr("true"))),
              PyDict(Dict1("correlation", PyStr("nsh")))}
      [] attr = "port_pair_group_parameters" ->
             {None, PyDict(EmptyDict),
              PyDict(Dict1("lb_fields", PyList(<<PyStr("eth_src")>>))),
              PyDict(Dict1("lb_fields", PyList(<<PyStr("bogus")>>)))}

\* The tenant of the request context; the context is an admin's, which may
\* name another tenant in the body.
ContextTenant == PyStr("t1")

\* The attributes a POST must carry: those with allow_post and no default,
\* but for tenant_id, which the API layer takes from the context.
RequiredAttributes(kind) ==
    {a \in Attributes(kind) :
        /\ RESOURCE_ATTRIBUTE_MAP[kind][a].allow_post
        /\ ~RESOURCE_ATTRIBUTE_MAP[kind][a].has_default
        /\ a # "tenant_id"}

\* The bodies that carry exactly the attributes K.
RECURSIVE BodiesOver(_, _)
BodiesOver(kind, K) ==
    IF K = {} THEN {EmptyDict}
    ELSE LET a == CHOOSE x \in K : TRUE
         IN  {WithItem(b, a, v) :
                 b \in BodiesOver(kind, K \ {a}), v \in Inputs(kind, a)}

Bodies(kind) ==
    UNION {BodiesOver(kind, K) :
           K \in {K \in SUBSET Attributes(kind) :
                     Cardinality(K \ RequiredAttributes(kind))
                         <= MaxExtraKeys}}

Requests ==
    UNION {{[kind |-> k, body |-> b] : b \in Bodies(k)} : k \in Kinds}

(***************************************************************************)
(* The API layer's preparation of a request body against the attribute     *)
(* map: a POST is checked for required and forbidden attributes and filled *)
(* with defaults, a PUT is checked for read-only attributes, and then      *)
(* every attribute present is converted and validated.  The attributes are *)
(* visited in dictionary order, which the language leaves open, so when    *)
(* several attributes fail any of them may be the one reported.            *)
(***************************************************************************)
Rejected(h, exc, attr, converted) ==
    [heap |-> h, exc |-> exc, attr |-> attr, converted |-> converted,
     resdict |-> <<>>]

\* tenant_id comes from the context when a POST leaves it out.
PopulateTenant(body) ==
    IF "tenant_id" \in DOMAIN body THEN body
    ELSE WithItem(body, "tenant_id", ContextTenant)

\* A POST fails on an attribute that has allow_post and no default and is
\* absent, and on one that lacks allow_post and is present.
PostProblems(kind, body) ==
    {a \in Attributes(kind) :
        LET spec == RESOURCE_ATTRIBUTE_MAP[kind][a]
        IN  \/ spec.allow_post /\ ~spec.has_default /\ a \notin DOMAIN body
            \/ ~spec.allow_post /\ a \in DOMAIN body}

PostError(kind, a) ==
    IF RESOURCE_ATTRIBUTE_MAP[kind][a].allow_post
    THEN "RequiredAttributeNotSpecified"
    ELSE "AttributeNotAllowedInPost"

\* Every allow_post attribute, with its default where the body is silent.
FillPostDefaults(kind, body) ==
    [a \in {x \in Attributes(kind) : RESOURCE_ATTRIBUTE_MAP[kind][x].allow_post}
        |-> IF a \in DOMAIN body THEN body[a]
            ELSE RESOURCE_ATTRIBUTE_MAP[kind][a].default]

\* A PUT fails on an attribute that lacks allow_put.
PutProblems(kind, body) ==
    {a \in DOMAIN body : ~RESOURCE_ATTRIBUTE_MAP[kind][a].allow_put}

\* The request once every attribute of res_dict has been applied, R[a]
\* being the result for attribute a.  On success `converted` holds what
\* each convert_to returned and `resdict` the request as handed to the
\* plugin; on a failure `converted` holds the failing attribute alone, when
\* its converter had returned.
ValuesConverted(h, kind, R) ==
    IF \E a \in DOMAIN R : R[a].exc # ""
    THEN {Rejected(Release(R[a].heap), R[a].exc, a,
                   IF R[a].stage = "validate"
                   THEN Dict1(a, R[a].converted) ELSE <<>>) :
             a \in {x \in DOMAIN R : R[x].exc # ""}}
    ELSE {[heap |->
               IF \E a \in DOMAIN R :
                      RESOURCE_ATTRIBUTE_MAP[kind][a].validate = "type:dict"
               THEN Release(R[CHOOSE a \in DOMAIN R :
                                  RESOURCE_ATTRIBUTE_MAP[kind][a].validate
                                      = "type:dict"].heap)
               ELSE h,
           exc |-> "", attr |-> "",
           converted |-> [a \in DOMAIN R |-> R[a].converted],
           resdict |-> [a \in DOMAIN R |-> R[a].value]]}

\* convert_to and validate of every attribute of res_dict.
ConvertValues(h, kind, res_dict) ==
    ValuesConverted(h, kind,
        [a \in DOMAIN res_dict |->
            ApplyAttribute(h, RESOURCE_ATTRIBUTE_MAP[kind][a], res_dict[a])])

\* The POST once tenant_id is in the body.
PreparePopulated(h, kind, b) ==
    IF PostProblems(kind, b) # {}
    THEN {Rejected(h, PostError(kind, a), a, <<>>) :
             a \in PostProblems(kind, b)}
    ELSE ConvertValues(h, kind, FillPostDefaults(kind, b))

PreparePost(h, kind, body) ==
    PreparePopulated(h, kind, PopulateTenant(body))

PreparePut(h, kind, body) ==
    IF PutProblems(kind, body) # {}
    THEN {Rejected(h, "CannotUpdateReadOnlyAttribute", a, <<>>) :
             a \in PutProblems(kind, body)}
    ELSE ConvertValues(h, kind, body)

NoRequest ==
    [method |-> "", kind |-> "", body |-> <<>>, exc |-> "", attr |-> "",
     converted |-> <<>>, resdict |-> <<>>]

RequestRecord(method, req, o) ==
    [method |-> method, kind |-> req.kind, body |-> req.body, exc |-> o.exc,
     attr |-> o.attr, converted |-> o.converted, resdict |-> o.resdict]

\* A POST of a resource reaches the API layer.
Post(req) ==
    \E o \in PreparePost(heap, req.kind, req.body) :
        /\ heap' = o.heap
        /\ last' = RequestRecord("POST", req, o)
        /\ UNCHANGED <<call, applied, res, nextId, implemented, instance>>

\* A PUT of a resource reaches the API layer.
Put(req) ==
    \E o \in PreparePut(heap, req.kind, req.body) :
        /\ heap' = o.heap
        /\ last' = RequestRecord("PUT", req, o)
        /\ UNCHANGED <<call, applied, res, nextId, implemented, instance>>

(***************************************************************************)
(* Direct calls of the normalizers.                                        *)
(***************************************************************************)
\* The largest 'weight' a caller passes.
MaxWeight == 2

ParamKeys == {"correlation", "symmetric", "weight", "lb_fields"}

ParamValues(k) ==
    CASE k = "correlation" -> {None, PyStr("mpls")}
      [] k = "symmetric" -> {PyBool(TRUE), PyBool(FALSE)}
      [] k = "weight" -> {PyInt(i) : i \in 1..MaxWeight}
      [] k = "lb_fields" -> {PyList(<<PyStr("eth_src")>>)}

\* The dictionaries a caller builds: any subset of the keys, each with one
\* of its values.
RECURSIVE DictsOver(_)
DictsOver(K) ==
    IF K = {} THEN {EmptyDict}
    ELSE LET k == CHOOSE x \in K : TRUE
         IN  {WithItem(d, k, v) : d \in DictsOver(K \ {k}), v \in ParamValues(k)}

ParamDicts == UNION {DictsOver(K) : K \in SUBSET ParamKeys}

\* Immediate values: the falsy ones and some truthy ones that are not
\* dictionaries.
Immediates ==
    {None, PyBool(FALSE), PyInt(0), PyStr(""), PyList(<<>>),
     PyBool(TRUE), PyInt(5), PyStr("mpls"),
     PyList(<<PyStr("correlation"), PyStr("symmetric")>>)}

\* What a caller may pass: an immediate, a dictionary it has just built, or
\* a reference it holds: the object the previous call returned (which is a
\* module-level default when that call's argument was empty) or the
\* dictionary it built last.
CallArgs ==
    Immediates \cup {PyDict(d) : d \in ParamDicts} \cup {Ref(o) : o \in Objects}

Holds(arg) == arg.t = "ref" => (arg.o = "arg" \/ call.ret = arg)

NoCall ==
    [fn |-> "", arg |-> None, before |-> None, raised |-> "", ret |-> None]

\* One call of a normalizer: `before` is the argument's value when the call
\* starts.
CallRecord(fn, arg, a, out) ==
    [fn |-> fn, arg |-> arg, before |-> Deref(a.heap, a.p),
     raised |-> out.raised, ret |-> out.ret]

NormalizeChainParameters(arg) ==
    /\ Holds(arg)
    /\ heap' = normalize_chain_parameters(PassArg(heap, arg).heap,
                                          PassArg(heap, arg).p).heap
    /\ call' = CallRecord("normalize_chain_parameters", arg,
                          PassArg(heap, arg),
                          normalize_chain_parameters(PassArg(heap, arg).heap,
                                                     PassArg(heap, arg).p))
    /\ UNCHANGED <<last, applied, res, nextId, implemented, instance>>

NormalizeSfParameters(arg) ==
    /\ Holds(arg)
    /\ heap' = normalize_sf_parameters(PassArg(heap, arg).heap,
                                       PassArg(heap, arg).p).heap
    /\ call' = CallRecord("normalize_sf_parameters", arg,
                          PassArg(heap, arg),
                          normalize_sf_parameters(PassArg(heap, arg).heap,
                                                  PassArg(heap, arg).p))
    /\ UNCHANGED <<last, applied, res, nextId, implemented, instance>>

NormalizePpgParameters(arg) ==
    /\ Holds(arg)
    /\ heap' = normalize_ppg_parameters(PassArg(heap, arg).heap,
                                        PassArg(heap, arg).p).heap
    /\ call' = CallRecord("normalize_ppg_parameters", arg,
                          PassArg(heap, arg),
                          normalize_ppg_parameters(PassArg(heap, arg).heap,
                                                   PassArg(heap, arg).p))
    /\ UNCHANGED <<last, applied, res, nextId, implemented, instance>>

(***************************************************************************)
(* Single attributes of the map applied to a value: what convert_values    *)
(* does for one attribute of a POST or PUT body.                           *)
(***************************************************************************)
\* The longest port_pair_groups list a request carries.
MaxGroups == 2

\* The longest lb_fields list a request carries.
MaxLbFields == 2

\* Lists of at most n items of S.
RECURSIVE ListsOver(_, _)
ListsOver(S, n) ==
    IF n = 0 THEN {<<>>}
    ELSE ListsOver(S, n - 1)
             \cup {Append(l, x) : l \in {m \in ListsOver(S, n - 1) :
                                            Len(m) = n - 1},
                                  x \in S}

\* chain_id as a request may give it: integers and their numerals around
\* both ends of the range, and values int() rejects.
ChainIdInputs ==
    {PyInt(n) : n \in Numerals}
        \cup {PyStr(ToString(n)) : n \in Numerals}
        \cup {None, PyStr("abc"), PyStr(""), PyList(<<>>), PyBool(TRUE)}

\* port_pair_groups as a request may give it.
GroupItems == {Uuid(1), Uuid(2), PyStr("x"), PyInt(1)}

PortPairGroupsInputs ==
    {PyList(l) : l \in ListsOver(GroupItems, MaxGroups)}
        \cup {None, PyStr(""), PyStr("uuid-1"), PyInt(0), PyBool(FALSE),
              PyDict(EmptyDict), PyDict(Dict1("a", Uuid(1)))}

\* lb_fields as a request may give it.
LbFieldItems ==
    {PyStr("eth_src"), PyStr("udp_dst"), PyStr("bogus"), PyStr("ETH_SRC"),
     PyInt(5), None, PyList(<<>>)}

LbFieldsInputs ==
    {PyList(l) : l \in ListsOver(LbFieldItems, MaxLbFields)}
        \cup {None, PyStr("eth_src"), PyInt(0),
              PyDict(Dict1("eth_src", PyBool(TRUE)))}

NotApplied ==
    [attr |-> "", value |-> None, exc |-> "", msg |-> "", stage |-> "",
     converted |-> None]

\* One application of an attribute: `value` is what the request gave.
Applied(attr, value, r) ==
    [attr |-> attr, value |-> value, exc |-> r.exc, msg |-> r.msg,
     stage |-> r.stage, converted |-> r.converted]

\* The chain_id of a port chain.
ApplyChainId(v) ==
    /\ heap' = Release(ApplyAttribute(heap, port_chains_chain_id, v).heap)
    /\ applied' = Applied("chain_id", v,
                          ApplyAttribute(heap, port_chains_chain_id, v))
    /\ UNCHANGED <<call, last, res, nextId, implemented, instance>>

\* The port_pair_groups of a port chain.
ApplyPortPairGroups(v) ==
    /\ heap' = Release(ApplyAttribute(heap, port_chains_port_pair_groups,
                                      v).heap)
    /\ applied' = Applied("port_pair_groups", v,
                          ApplyAttribute(heap, port_chains_port_pair_groups,
                                         v))
    /\ UNCHANGED <<call, last, res, nextId, implemented, instance>>

\* The port_pair_group_parameters of a port pair group, with lb_fields v.
ApplyLbFields(v) ==
    /\ heap' = Release(ApplyAttribute(heap,
                           port_pair_groups_attributes
                               .port_pair_group_parameters,
                           PyDict(Dict1("lb_fields", v))).heap)
    /\ applied' = Applied("port_pair_group_parameters", v,
                          ApplyAttribute(heap,
                              port_pair_groups_attributes
                                  .port_pair_group_parameters,
                              PyDict(Dict1("lb_fields", v))))
    /\ UNCHANGED <<call, last, res, nextId, implemented, instance>>

(***************************************************************************)
(* The life of a resource behind the API: the plugin stores what a POST    *)
(* hands it under an id of its own making, overwrites the attributes a PUT *)
(* hands it, and forgets the resource on DELETE.  A request the API layer  *)
(* rejects never reaches the plugin.                                       *)
(***************************************************************************)
\* How many resources are created in a run.
MaxCreated == 2

GeneratedId(n) == PyStr("res-" \o ToString(n))

\* The resource as stored at its creation; `created` keeps the attributes
\* as they were then.
Stored(n, kind, resdict) ==
    [kind |-> kind,
     created |-> WithItem(resdict, "id", GeneratedId(n)),
     attrs |-> WithItem(resdict, "id", GeneratedId(n))]

\* The stored attributes overwritten by those of resdict.
Updated(r, resdict) ==
    [r EXCEPT !.attrs = [a \in DOMAIN r.attrs |->
                            IF a \in DOMAIN resdict THEN resdict[a]
                            ELSE r.attrs[a]]]

\* POST: create_port_pair, create_port_chain or create_port_pair_group.
Create(req) ==
    /\ res = None
    /\ nextId <= MaxCreated
    /\ \E o \in PreparePost(heap, req.kind, req.body) :
           \/ /\ o.exc = ""
              /\ heap' = o.heap
              /\ res' = Stored(nextId, req.kind, o.resdict)
              /\ nextId' = nextId + 1
              /\ UNCHANGED <<call, last, applied, implemented, instance>>
           \/ /\ o.exc # ""
              /\ UNCHANGED vars

\* PUT: update_port_pair, update_port_chain or update_port_pair_group.
Update(req) ==
    /\ res # None
    /\ res.kind = req.kind
    /\ \E o \in PreparePut(heap, req.kind, req.body) :
           \/ /\ o.exc = ""
              /\ heap' = o.heap
              /\ res' = Updated(res, o.resdict)
              /\ UNCHANGED <<call, last, applied, nextId, implemented,
                             instance>>
           \/ /\ o.exc # ""
              /\ UNCHANGED vars

\* DELETE: delete_port_pair, delete_port_chain or delete_port_pair_group.
Delete ==
    /\ res # None
    /\ res' = None
    /\ UNCHANGED <<heap, call, last, applied, nextId, implemented, instance>>

(***************************************************************************)
(* SfcPluginBase: a class with metaclass ABCMeta is instantiated only once *)
(* a subclass has overridden every method marked @abstractmethod.          *)
(***************************************************************************)
\* The abstract methods had get_port_chains lost its @abstractmethod.
SfcPluginBase_abstract_narrow ==
    {"create_port_chain", "update_port_chain", "delete_port_chain",
     "get_port_chain",
     "create_port_pair_group", "update_port_pair_group",
     "delete_port_pair_group", "get_port_pair_groups", "get_port_pair_group",
     "create_port_pair", "update_port_pair", "delete_port_pair",
     "get_port_pairs", "get_port_pair"}

\* The methods of SfcPluginBase marked @abstractmethod.
SfcPluginBase_abstract ==
    {"create_port_chain", "update_port_chain", "delete_port_chain",
     "get_port_chains", "get_port_chain",
     "create_port_pair_group", "update_port_pair_group",
     "delete_port_pair_group", "get_port_pair_groups", "get_port_pair_group",
     "create_port_pair", "update_port_pair", "delete_port_pair",
     "get_port_pairs", "get_port_pair"}

\* The methods SfcPluginBase defines itself.
SfcPluginBase_concrete ==
    {"get_plugin_name", "get_plugin_type", "get_plugin_description"}

\* The methods a subclass may define.
PluginMethods ==
    {"create_port_chain", "update_port_chain", "delete_port_chain",
     "get_port_chains", "get_port_chain",
     "create_port_pair_group", "update_port_pair_group",
     "delete_port_pair_group", "get_port_pair_groups", "get_port_pair_group",
     "create_port_pair", "update_port_pair", "delete_port_pair",
     "get_port_pairs", "get_port_pair", "get_plugin_name"}

\* A subclass of SfcPluginBase gains a definition of method m.
Implement(m) ==
    /\ instance = ""
    /\ m \notin implemented
    /\ implemented' = implemented \cup {m}
    /\ UNCHANGED <<heap, call, last, applied, res, nextId, instance>>

\* The subclass is instantiated: TypeError while an abstract method is left.
Instantiate ==
    /\ instance = ""
    /\ instance' = IF SfcPluginBase_abstract \subseteq implemented
                   THEN "instance" ELSE "TypeError"
    /\ UNCHANGED <<heap, call, last, applied, res, nextId, implemented>>

Init ==
    /\ heap = InitHeap
    /\ call = NoCall
    /\ last = NoRequest
    /\ applied = NotApplied
    /\ res = None
    /\ nextId = 1
    /\ implemented = {}
    /\ instance = ""

NextCalls ==
    \E arg \in CallArgs :
        \/ NormalizeChainParameters(arg)
        \/ NormalizeSfParameters(arg)
        \/ NormalizePpgParameters(arg)

Next == \E req \in Requests : Post(req) \/ Put(req)

NextAttr ==
    \/ \E v \in ChainIdInputs : ApplyChainId(v)
    \/ \E v \in PortPairGroupsInputs : ApplyPortPairGroups(v)
    \/ \E v \in LbFieldsInputs : ApplyLbFields(v)

NextLifecycle ==
    \/ \E req \in Requests : Create(req) \/ Update(req)
    \/ Delete

NextPlugin ==
    \/ \E m \in PluginMethods : Implement(m)
    \/ Instantiate

\* The API layer serving requests against the attribute map.
Spec == Init /\ [][Next]_vars

\* The normalizers called directly, in any order, with any argument.
SpecCalls == Init /\ [][NextCalls]_vars

\* Single attributes applied to any value.
SpecAttr == Init /\ [][NextAttr]_vars

\* Resources created, updated and deleted through the API.
SpecLifecycle == Init /\ [][NextLifecycle]_vars

\* Subclasses of SfcPluginBase defined and instantiated.
SpecPlugin == Init /\ [][NextPlugin]_vars

(***************************************************************************)
(* Properties of the normalizers called directly (SpecCalls).              *)
(***************************************************************************)

\* The last call was normalize_chain_parameters on a non-empty dictionary.
ChainCallOnDict ==
    /\ call.fn = "normalize_chain_parameters"
    /\ call.before.t = "dict"
    /\ DOMAIN call.before.d # {}

\* C8: for every non-empty chain_parameters dictionary,
\* normalize_chain_parameters returns without raising, keeps every key the
\* caller supplied with the supplied value, adds exactly the missing ones
\* among 'correlation' (as "mpls") and 'symmetric' (as false), and
\* normalizing its result again changes nothing and returns an equal
\* dictionary.
C8_ChainNormalizeKeepsAndCompletes ==
    ChainCallOnDict =>
        /\ call.raised = ""
        /\ call.ret.t = "ref"
        /\ LET d == call.before.d
               r == heap[call.ret.o]
               again == normalize_chain_parameters(heap, call.ret)
           IN  /\ \A k \in DOMAIN d : k \in DOMAIN r /\ r[k] = d[k]
               /\ DOMAIN r = DOMAIN d \cup {"correlation", "symmetric"}
               /\ "correlation" \notin DOMAIN d
                      => r["correlation"] = PyStr("mpls")
               /\ "symmetric" \notin DOMAIN d
                      => r["symmetric"] = PyBool(FALSE)
               /\ again.raised = ""
               /\ again.heap = heap
               /\ Deref(again.heap, again.ret) = PyDict(r)

\* C8's case: a dictionary that supplies its own 'symmetric' (true) and a
\* foreign key, and lacks 'correlation', has been normalized.
C8_Witness ==
    /\ ChainCallOnDict
    /\ call.arg.t = "dict"
    /\ DOMAIN call.before.d = {"symmetric", "weight"}
    /\ call.before.d["symmetric"] = PyBool(TRUE)
    /\ "correlation" \in DOMAIN heap[call.ret.o]

\* C9 as stated: whatever calls of the three normalizers have been made,
\* with whatever arguments, the three module-level defaults hold their
\* initial contents.
C9_DefaultsUnchanged ==
    \A o \in DefaultObjects : heap[o] = InitHeap[o]

(***************************************************************************)
(* Properties of the requests the API layer serves (Spec).                 *)
(***************************************************************************)
PostOf(kind) == last.method = "POST" /\ last.kind = kind

\* The body leaves attribute a out, or gives it as null or as {}.
OmittedOrEmpty(a) ==
    \/ a \notin DOMAIN last.body
    \/ last.body[a] \in {None, PyDict(EmptyDict)}

\* C3 as stated: every port chain creation that leaves port_pair_groups
\* out ends with PortPairGroupNotSpecified.
C3_OmittedGroupsRaiseNotSpecified ==
    (PostOf("port_chains") /\ "port_pair_groups" \notin DOMAIN last.body)
        => last.exc = "PortPairGroupNotSpecified"

\* C3 amended: a port chain creation that leaves port_pair_groups out is
\* rejected by the API layer's check of the POST body, before any converter
\* runs: with "required attribute not specified" for port_pair_groups, or
\* with "not allowed in POST" for another attribute of the body; and a
\* creation that gives port_pair_groups as null or as an empty list is
\* rejected, with PortPairGroupNotSpecified when port_pair_groups is the
\* attribute reported.
C3_OmittedGroupsRejectedAsRequired ==
    /\ (PostOf("port_chains") /\ "port_pair_groups" \notin DOMAIN last.body)
           => /\ last.exc \in {"RequiredAttributeNotSpecified",
                               "AttributeNotAllowedInPost"}
              /\ last.exc = "RequiredAttributeNotSpecified"
                     <=> last.attr = "port_pair_groups"
              /\ last.converted = <<>>
    /\ (/\ PostOf("port_chains")
        /\ "port_pair_groups" \in DOMAIN last.body
        /\ last.body["port_pair_groups"] \in {None, PyList(<<>>)})
           => /\ last.exc # ""
              /\ last.attr = "port_pair_groups"
                     => last.exc = "PortPairGroupNotSpecified"

\* C3's case: a creation without port_pair_groups, but with a name, has
\* been rejected.
C3_Witness ==
    /\ PostOf("port_chains")
    /\ DOMAIN last.body = {"name"}
    /\ last.exc = "RequiredAttributeNotSpecified"

\* C4: when a port chain creation leaves chain_parameters out, or gives it
\* as null or as {}, normalize_chain_parameters returns exactly
\* {correlation: "mpls", symmetric: false}, chain_parameters is not the
\* attribute the request fails on, and an admitted request carries exactly
\* that dictionary.
C4_DefaultChainParameters ==
    (PostOf("port_chains") /\ OmittedOrEmpty("chain_parameters")) =>
        /\ last.attr # "chain_parameters"
        /\ last.exc = "" => "chain_parameters" \in DOMAIN last.converted
        /\ "chain_parameters" \in DOMAIN last.converted =>
               last.converted["chain_parameters"] =
                   PyDict([correlation |-> PyStr("mpls"),
                           symmetric |-> PyBool(FALSE)])
        /\ last.exc = "" =>
               last.resdict["chain_parameters"] =
                   PyDict([correlation |-> PyStr("mpls"),
                           symmetric |-> PyBool(FALSE)])

\* C4's case: a port chain has been created from a body without
\* chain_parameters.
C4_Witness ==
    /\ PostOf("port_chains")
    /\ "chain_parameters" \notin DOMAIN last.body
    /\ last.exc = ""
    /\ DOMAIN last.resdict["chain_parameters"].d = {"correlation", "symmetric"}

\* C5: when a port pair creation leaves service_function_parameters out, or
\* gives it as null or as {}, normalize_sf_parameters returns exactly
\* {correlation: null, weight: 1} and the attribute is not the one the
\* request fails on; a non-empty dictionary is returned as it was given.
C5_DefaultSfParameters ==
    PostOf("port_pairs") =>
        /\ last.exc = "" =>
               "service_function_parameters" \in DOMAIN last.converted
        /\ OmittedOrEmpty("service_function_parameters") =>
               /\ last.attr # "service_function_parameters"
               /\ "service_function_parameters" \in DOMAIN last.converted =>
                      last.converted["service_function_parameters"] =
                          PyDict([correlation |-> None, weight |-> PyInt(1)])
        /\ (/\ ~OmittedOrEmpty("service_function_parameters")
            /\ "service_function_parameters" \in DOMAIN last.converted) =>
               last.converted["service_function_parameters"] =
                   last.body["service_function_parameters"]

\* C5's case: a port pair has been created from a body without
\* service_function_parameters.
C5_Witness ==
    /\ PostOf("port_pairs")
    /\ "service_function_parameters" \notin DOMAIN last.body
    /\ last.exc = ""
    /\ last.resdict["service_function_parameters"].d["weight"] = PyInt(1)

(***************************************************************************)
(* Properties of single attributes (SpecAttr).                             *)
(***************************************************************************)
\* The eight field names the specification allows in lb_fields.
AllowedFieldNames ==
    {PyStr("eth_src"), PyStr("eth_dst"), PyStr("ip_src"), PyStr("ip_dst"),
     PyStr("tcp_src"), PyStr("tcp_dst"), PyStr("udp_src"), PyStr("udp_dst")}

LbFieldsApplied == applied.attr = "port_pair_group_parameters"

\* C1: an lb_fields that is a list with at least one value outside the
\* eight allowed field names is rejected with an error message, an
\* lb_fields that is not a list is rejected with an error message too, and
\* a list of allowed names only (the empty list included) is accepted.
C1_IllegalLbFieldsRejectedWithMessage ==
    LbFieldsApplied =>
        /\ applied.value.t # "list" =>
               applied.exc = "HTTPBadRequest" /\ applied.msg # ""
        /\ (/\ applied.value.t = "list"
            /\ \E x \in Range(applied.value.l) : x \notin AllowedFieldNames)
               => applied.exc = "HTTPBadRequest" /\ applied.msg # ""
        /\ (/\ applied.value.t = "list"
            /\ \A x \in Range(applied.value.l) : x \in AllowedFieldNames)
               => applied.exc = ""

\* C2: a chain_id that converts to an integer is rejected by the schema
\* exactly when the integer lies outside [0, 65535]; 0 and 65535 are
\* accepted and -1 and 65536 rejected, as integers and as numerals.
C2_ChainIdRange ==
    applied.attr = "chain_id" =>
        /\ applied.stage # "convert" =>
               /\ applied.converted.t = "int"
               /\ applied.exc \in {"", "HTTPBadRequest"}
               /\ applied.exc = "HTTPBadRequest"
                      <=> \/ applied.converted.i < 0
                          \/ applied.converted.i > 65535
        /\ applied.value \in {PyInt(0), PyInt(65535), PyStr("0"),
                              PyStr("65535")}
               => applied.exc = ""
        /\ applied.value \in {PyInt(0 - 1), PyInt(65536), PyStr("-1"),
                              PyStr("65536")}
               => applied.exc = "HTTPBadRequest"

\* C2's case: the chain_id 65536 has been rejected by the range check.
C2_Witness ==
    /\ applied.attr = "chain_id"
    /\ applied.value = PyStr("65536")
    /\ applied.converted = PyInt(65536)
    /\ applied.stage = "validate"
    /\ applied.exc = "HTTPBadRequest"

\* C7: whatever port_pair_groups is given, normalize_port_pair_groups
\* either raises PortPairGroupNotSpecified or returns a list of at least
\* one element; null and the empty list both raise.
C7_AtLeastOnePortPairGroup ==
    applied.attr = "port_pair_groups" =>
        /\ \/ /\ applied.stage = "convert"
              /\ applied.exc = "PortPairGroupNotSpecified"
           \/ /\ applied.stage # "convert"
              /\ applied.converted.t = "list"
              /\ Len(applied.converted.l) >= 1
        /\ applied.value \in {None, PyList(<<>>)}
               => applied.exc = "PortPairGroupNotSpecified"

\* C7's case: the converter has refused an empty list.
C7_Witness ==
    /\ applied.attr = "port_pair_groups"
    /\ applied.value = PyList(<<>>)
    /\ applied.exc = "PortPairGroupNotSpecified"

(***************************************************************************)
(* Properties of the resources behind the API (SpecLifecycle).             *)
(***************************************************************************)
\* The attributes C10 says are settable on create only, besides tenant_id.
CreateOnly(kind) ==
    CASE kind = "port_chains" -> {"chain_id", "chain_parameters"}
      [] kind = "port_pairs" ->
             {"ingress", "egress", "service_function_parameters"}
      [] kind = "port_pair_groups" -> {"port_pair_group_parameters"}

\* The attributes C10 says an update may change.
Updatable(kind) ==
    CASE kind = "port_chains" ->
             {"name", "description", "port_pair_groups", "flow_classifiers"}
      [] kind = "port_pairs" -> {"name", "description"}
      [] kind = "port_pair_groups" -> {"name", "description", "port_pairs"}

\* C10: in the attribute map the id of every resource has neither
\* allow_post nor allow_put, tenant_id and the create-only attributes have
\* allow_post without allow_put, and the updatable attributes have both;
\* and a stored resource's id is the generated one and its id, tenant_id
\* and create-only attributes equal the values fixed at its creation,
\* whatever requests were admitted since.
C10_CreateOnlyAttributesFixed ==
    /\ \A kind \in {"port_chains", "port_pairs", "port_pair_groups"} :
           /\ ~RESOURCE_ATTRIBUTE_MAP[kind]["id"].allow_post
           /\ ~RESOURCE_ATTRIBUTE_MAP[kind]["id"].allow_put
           /\ \A a \in CreateOnly(kind) \cup {"tenant_id"} :
                  /\ RESOURCE_ATTRIBUTE_MAP[kind][a].allow_post
                  /\ ~RESOURCE_ATTRIBUTE_MAP[kind][a].allow_put
           /\ \A a \in Updatable(kind) :
                  /\ RESOURCE_ATTRIBUTE_MAP[kind][a].allow_post
                  /\ RESOURCE_ATTRIBUTE_MAP[kind][a].allow_put
    /\ res # None =>
           /\ res.attrs["id"] # Uuid(5)
           /\ \A a \in CreateOnly(res.kind) \cup {"id", "tenant_id"} :
                  res.attrs[a] = res.created[a]

\* C10's case: a port chain created with chain_id 7 for tenant t2 has had
\* its name changed by an update.
C10_Witness ==
    /\ res # None
    /\ res.kind = "port_chains"
    /\ res.attrs["name"] # res.created["name"]
    /\ res.attrs["chain_id"] = PyInt(7)

(***************************************************************************)
(* Properties of SfcPluginBase (SpecPlugin).                               *)
(***************************************************************************)
\* The name of operation op on resource kind.
Method(op, kind) ==
    IF op = "list" THEN "get_" \o kind \o "s" ELSE op \o "_" \o kind

\* A create, update, delete, list and get for each of the three kinds.
FiveForEachKind ==
    {Method(op, kind) :
        op \in {"create", "update", "delete", "list", "get"},
        kind \in {"port_pair", "port_pair_group", "port_chain"}}

\* C6 as stated: sixteen operations are required, so a subclass that is
\* instantiated defines sixteen of them at least.
C6_SixteenRequired ==
    instance = "instance" => Cardinality(implemented) >= 16

\* C6 amended: the required operations are the fifteen made of a create,
\* update, delete, list and get for each of the three kinds: a subclass is
\* instantiated if it defines all of these, and instantiating it raises
\* TypeError if it leaves one out.
C6_FifteenRequired ==
    /\ Cardinality(FiveForEachKind) = 15
    /\ instance = "instance" => FiveForEachKind \subseteq implemented
    /\ instance = "TypeError" => ~(FiveForEachKind \subseteq implemented)

\* C6's case: a subclass that defines the fifteen and nothing else has been
\* instantiated.
C6_Witness ==
    /\ instance = "instance"
    /\ Cardinality(implemented) = 15

====
